---------------------------- MODULE Spec2Model ----------------------------
(***************************************************************************)
(* A model of jb-recall (src/recall.py): the chunker, the indexer with its *)
(* change detection, the directory walker, the command dispatcher and the  *)
(* main loop.                                                              *)
(*                                                                         *)
(* Texts and file names are sequences of one-character strings, so that    *)
(* slicing, strip(), suffix and lower() are computed as Python computes    *)
(* them.                                                                   *)
(***************************************************************************)
EXTENDS Integers, Sequences, FiniteSets, TLC

(***************************************************************************)
(* Bounds of the model.                                                    *)
(***************************************************************************)
\* longest text of the exhaustively enumerated chunker inputs
MaxTextLen == 4
\* chunk_size of the enumerated chunker inputs ranges over 1..MaxSize
MaxSize == 3
\* overlap of the enumerated chunker inputs ranges over 0..MaxOverlap
MaxOverlap == 3
\* an index_dir command's embedding call may fail at candidate 1..MaxFailAt
MaxFailAt == 2

(***************************************************************************)
(* Program constants.                                                      *)
(***************************************************************************)
\* def chunk_text(text, chunk_size=500, overlap=50)
DefaultChunkSize == 500
DefaultOverlap == 50
\* search(collection, embedder, query, limit=5), cmd.get('limit', 5)
DefaultLimit == 5

VARIABLES
    \* ---- the chunker run on its own (ChunkSpec) ----
    ctext,      \* chunk_text: parameter text
    csize,      \* chunk_text: parameter chunk_size
    coverlap,   \* chunk_text: parameter overlap
    cstart,     \* chunk_text: local start
    cchunks,    \* chunk_text: local chunks
    cpc,        \* chunk_text: "while" (at the loop test of line 48), "body" (at
                \* line 49), "returned"; "raised" is where an exception would leave it
    \* ---- the service (Spec) ----
    fs,         \* the file system: file -> what is at that path now
    dbs,        \* the persistent stores: db_path -> the records of its "memory" collection
    collection, \* global _collection: None, or the db_path the collection was opened on
    embedder,   \* global _embedder: FALSE for None, TRUE once loaded
    last,       \* the last event: the command handled, what handle_command gave,
                \* and the paths an index_dir command passed to index_file
    \* ---- index_file followed call by call (WindowSpec) ----
    ipc,        \* index_file: "idle" (not running), "embed" (after lines 73-78,
                \* before the chunks are embedded and added)
    icall,      \* index_file: its parameters and locals while it runs
    observed,   \* what another reader of a persistent store saw last
    \* ---- main ----
    mpc,        \* main: "loop" (inside while True), "done" (after a break)
    mout        \* main: what the last pass of the loop (at the start: line 215) put
                \* on the output queue, in order

cvars == <<ctext, csize, coverlap, cstart, cchunks, cpc>>
wvars == <<ipc, icall, observed>>
mvars == <<mpc, mout>>
svars == <<fs, dbs, collection, embedder, last, wvars, mvars>>
vars == <<cvars, svars>>

(***************************************************************************)
(* Python helpers.                                                         *)
(***************************************************************************)
RECURSIVE Tabulate(_, _)
\* the function f restricted to the finite set S, with every value computed once
Tabulate(f, S) ==
    IF S = {} THEN <<>>
    ELSE LET x == CHOOSE y \in S : TRUE
         IN  (x :> f[x]) @@ Tabulate(f, S \ {x})

Min(a, b) == IF a < b THEN a ELSE b
Max(a, b) == IF a < b THEN b ELSE a

\* characters str.strip() removes (the ones the model's texts use)
Whitespace == {" ", "\n", "\t"}

\* an index of a slice, as Python clamps it: negative counts from the end
SliceIndex(i, len) == IF i < 0 THEN Max(i + len, 0) ELSE Min(i, len)

\* text[start:end]
PySlice(text, start, end) ==
    LET lo == SliceIndex(start, Len(text))
        hi == SliceIndex(end, Len(text))
    IN  IF lo < hi THEN SubSeq(text, lo + 1, hi) ELSE <<>>

\* bool(chunk.strip()): some character is not whitespace
StripNonEmpty(chunk) == \E i \in 1..Len(chunk) : chunk[i] \notin Whitespace

(***************************************************************************)
(* chunk_text, src/recall.py:44-54.                                        *)
(***************************************************************************)
\* line 48: while start < len(text)
LoopTest(text, start) == start < Len(text)

\* line 49: end = start + chunk_size
WindowEnd(start, chunk_size) == start + chunk_size

\* line 50: chunk = text[start:end]
Window(text, start, chunk_size) == PySlice(text, start, WindowEnd(start, chunk_size))

\* lines 51-52: if chunk.strip(): chunks.append(chunk)
AppendChunk_DropsCheck(chunks, chunk) == Append(chunks, chunk)
AppendChunk(chunks, chunk) ==
    IF StripNonEmpty(chunk) THEN Append(chunks, chunk) ELSE chunks

\* line 53: start = end - overlap
NextStart_NoOverlap(end, overlap) == end
NextStart(end, overlap) == end - overlap

RECURSIVE chunk_loop(_, _, _, _, _)
chunk_loop(text, chunk_size, overlap, start, chunks) ==
    IF LoopTest(text, start)
    THEN chunk_loop(text, chunk_size, overlap,
                    NextStart(WindowEnd(start, chunk_size), overlap),
                    AppendChunk(chunks, Window(text, start, chunk_size)))
    ELSE chunks

\* the whole call; defined (terminating) only when overlap < chunk_size
chunk_text(text, chunk_size, overlap) == chunk_loop(text, chunk_size, overlap, 0, <<>>)

(***************************************************************************)
(* Texts.                                                                  *)
(***************************************************************************)
RECURSIVE SeqsUpTo(_, _)
SeqsUpTo(S, n) ==
    IF n = 0 THEN {<<>>}
    ELSE LET shorter == SeqsUpTo(S, n - 1)
         IN  shorter \cup {Append(s, c) : s \in {t \in shorter : Len(t) = n - 1}, c \in S}

\* a text of n characters without whitespace whose windows differ by position
Pattern(n) == [i \in 1..n |-> <<"a", "b", "c", "d", "e", "f", "g">>[(i % 7) + 1]]

\* n spaces
Blank(n) == [i \in 1..n |-> " "]

SmallTexts == SeqsUpTo({"a", " "}, MaxTextLen)

\* a call whose run has finitely many states: the loop ends (overlap < chunk_size),
\* or start stays 0 and the window at 0 is never appended, so that every iteration
\* repeats the one before.  (With overlap > chunk_size start decreases for ever, and
\* with overlap = chunk_size and a non-blank window at 0 chunks grows for ever.)
FiniteRun(text, chunk_size, overlap) ==
    \/ overlap < chunk_size
    \/ /\ overlap = chunk_size
       /\ AppendChunk(<<>>, Window(text, 0, chunk_size)) = <<>>

\* (text, chunk_size, overlap) triples chunk_text is run on
ChunkInputs ==
    {in \in SmallTexts \X (1..MaxSize) \X (0..MaxOverlap) : FiniteRun(in[1], in[2], in[3])}
    \cup {<<Pattern(1000), DefaultChunkSize, DefaultOverlap>>,
          <<Pattern(10), DefaultChunkSize, DefaultOverlap>>,
          <<Pattern(450), DefaultChunkSize, DefaultOverlap>>,
          <<Pattern(460), DefaultChunkSize, DefaultOverlap>>,
          <<Pattern(499), DefaultChunkSize, DefaultOverlap>>,
          <<Pattern(450) \o Blank(49), DefaultChunkSize, DefaultOverlap>>}

(***************************************************************************)
(* Paths: a path is the sequence of its segments below the root "/", each  *)
(* segment a sequence of characters.                                       *)
(***************************************************************************)
RECURSIVE StrRange(_, _, _)
\* the characters lo..hi of a sequence as one string, by halving
StrRange(chars, lo, hi) ==
    IF lo > hi THEN ""
    ELSE IF lo = hi THEN chars[lo]
    ELSE LET mid == (lo + hi) \div 2
         IN  StrRange(chars, lo, mid) \o StrRange(chars, mid + 1, hi)

\* the Python string of a sequence of characters
Str(chars) == StrRange(chars, 1, Len(chars))

RECURSIVE JoinSegs(_)
JoinSegs(path) == IF path = <<>> THEN "" ELSE "/" \o Str(path[1]) \o JoinSegs(Tail(path))

\* str(path.absolute()) of an absolute POSIX path
AbsStr(path) == IF path = <<>> THEN "/" ELSE JoinSegs(path)

\* path.parts: the anchor, then the segments (each still a sequence of characters)
Parts(path) == <<(<<"/">>)>> \o path

\* path.name
Name(path) == path[Len(path)]

\* str.lower(), on the letters the model's names use
LowerChar(c) ==
    CASE c = "M" -> "m" [] c = "D" -> "d" [] c = "P" -> "p" [] c = "Y" -> "y"
      [] c = "N" -> "n" [] OTHER -> c
Lower(chars) == [i \in 1..Len(chars) |-> LowerChar(chars[i])]

\* name.rfind('.') as a 1-based position, 0 when there is no dot
LastDot(name) ==
    LET dots == {i \in 1..Len(name) : name[i] = "."}
    IN  IF dots = {} THEN 0 ELSE CHOOSE i \in dots : \A j \in dots : j <= i

\* path.suffix (pathlib): from the last dot, unless the dot leads or ends the name
Suffix(path) ==
    LET name == Name(path)
        i == LastDot(name)
    IN  IF 1 < i /\ i < Len(name) THEN SubSeq(name, i, Len(name)) ELSE <<>>

\* part.startswith('.')
StartsWithDot(part) == part # <<>> /\ part[1] = "."

\* name in path.parts
InParts(name, path) == \E i \in 1..Len(Parts(path)) : Str(Parts(path)[i]) = name

W == <<"w">>
H == <<"h">>
Cfg == <<".", "c", "f", "g">>
Hidden == <<".", "h", "i", "d", "d", "e", "n">>
NodeModules == <<"n", "o", "d", "e", "_", "m", "o", "d", "u", "l", "e", "s">>
APy == <<"a", ".", "p", "y">>
BPy == <<"b", ".", "p", "y">>
CJs == <<"c", ".", "j", "s">>
NMd == <<"N", ".", "M", "D">>

\* the files of the modelled file system, in the order rglob yields them
FileA == <<W, APy>>
FileB == <<W, Hidden, BPy>>
FileC == <<W, NodeModules, CJs>>
FileN == <<W, NMd>>
FileH == <<H, Cfg, W, APy>>
FileOrder == <<FileA, FileB, FileC, FileN, FileH>>
Files == {FileOrder[i] : i \in 1..Len(FileOrder)}

\* the directories index_dir is asked to scan
Roots == {<<W>>, <<H, Cfg, W>>}

\* the files the environment edits between commands
Mutable == {FileA}

\* the files index_file commands name
Targets == {FileA, FileN}

\* str(path.absolute()) of each modelled path, computed once
PathStr == Tabulate([p \in Files \cup Roots |-> AbsStr(p)], Files \cup Roots)
\* path.name of each modelled file, computed once
NameStr == Tabulate([f \in Files |-> Str(Name(f))], Files)

(***************************************************************************)
(* The file system.                                                        *)
(***************************************************************************)
\* what is at a path: nothing, bytes that are not valid UTF-8, or a text (held as
\* a string; TextOf gives its characters)
NoFile == [kind |-> "none", text |-> ""]
Binary == [kind |-> "binary", text |-> ""]

\* contents: 2 chunks, 1 chunk, another 1 chunk, whitespace only, nothing
TextEmpty == <<>>
TextMid == Pattern(460)
TextShort == Pattern(10)
TextOther == Pattern(12)
TextBlank == Blank(3)

Texts == {TextMid, TextShort, TextOther, TextBlank, TextEmpty}

\* the string of each modelled content, computed once
StrOf == Tabulate([t \in Texts |-> Str(t)], Texts)
TextFile(t) == [kind |-> "text", text |-> StrOf[t]]
FileStates == {NoFile, Binary} \cup {TextFile(t) : t \in Texts}

\* line 64: path.read_text(encoding='utf-8'), as characters
TextOf(file) == CHOOSE t \in Texts : StrOf[t] = fs[file].text

\* path.exists() and path.is_file()
IsFile(f) == fs[f].kind # "none"

(***************************************************************************)
(* file_hash, src/recall.py:39-42.  MD5 is modelled by a 16-bit positional *)
(* checksum of the characters; the modelled contents have distinct         *)
(* checksums, as they have distinct MD5 digests.                           *)
(***************************************************************************)
CharCode(c) ==
    CASE c = "a" -> 97 [] c = "b" -> 98 [] c = "c" -> 99 [] c = "d" -> 100
      [] c = "e" -> 101 [] c = "f" -> 102 [] c = "g" -> 103 [] c = " " -> 32
      [] OTHER -> 63

RECURSIVE WeightedSum(_, _, _)
\* sum of i * CharCode(text[i]) for i in lo..hi, by halving
WeightedSum(text, lo, hi) ==
    IF lo > hi THEN 0
    ELSE IF lo = hi THEN lo * CharCode(text[lo])
    ELSE LET mid == (lo + hi) \div 2
         IN  WeightedSum(text, lo, mid) + WeightedSum(text, mid + 1, hi)

file_hash(text) == (Len(text) + WeightedSum(text, 1, Len(text))) % 65521

\* file_hash and chunk_text of each modelled content, computed once
HashOf == Tabulate([t \in Texts |-> file_hash(t)], Texts)
ChunksOf ==
    Tabulate([t \in Texts |-> chunk_text(t, DefaultChunkSize, DefaultOverlap)], Texts)

\* embedder.encode of one text: a deterministic one-dimensional embedding
Embed(text) == WeightedSum(text, 1, Len(text)) % 1000

\* the embedding and the string of each chunk of the modelled contents, computed once
AllChunks == UNION {{ChunksOf[t][i] : i \in 1..Len(ChunksOf[t])} : t \in Texts}
EmbeddingOf == Tabulate([c \in AllChunks |-> Embed(c)], AllChunks)
ChunkStr == Tabulate([c \in AllChunks |-> Str(c)], AllChunks)

(***************************************************************************)
(* The store collaborator (a ChromaDB collection): a set of records, each  *)
(* the id, the document and the metadata of one chunk.  Within one path    *)
(* records are inserted in chunk order, so get() lists them by chunk_idx.  *)
(***************************************************************************)
None == "None"
DbPaths == {"/db1", "/db2"}

\* lines 88-97: the id and the metadata of chunk i (0-based) of a file
ChunkId_NoIndex(prefix, i) == prefix \o "::" \o "0"
ChunkId(prefix, i) == prefix \o "::" \o ToString(i)

NewRecord(file, chunks, i, current_hash) ==
    [id |-> ChunkId(PathStr[file], i),
     document |-> ChunkStr[chunks[i + 1]],
     path |-> PathStr[file],
     filename |-> NameStr[file],
     chunk_idx |-> i,
     hash |-> current_hash,
     embedding |-> EmbeddingOf[chunks[i + 1]]]

NewRecords(file, chunks, current_hash) ==
    {NewRecord(file, chunks, i, current_hash) : i \in 0..(Len(chunks) - 1)}

Ids(records) == {r.id : r \in records}

\* collection.get(where={"path": p})
Get(store, p) == {r \in store : r.path = p}

\* collection.delete(ids=...)
Delete_Nothing(store, ids) == store
Delete(store, ids) == {r \in store : r.id \notin ids}

\* collection.add(...): a record whose id is already stored is ignored
Add(store, records) == store \cup {r \in records : r.id \notin Ids(store)}

\* collection.count()
Count(store) == Cardinality(store)

\* existing['metadatas'][0]: the first record get() lists
FirstOf(existing) == CHOOSE r \in existing : \A s \in existing : r.chunk_idx <= s.chunk_idx

(***************************************************************************)
(* Outcomes of a call: a returned dict, or an exception that propagates.   *)
(***************************************************************************)
Return(value) == [kind |-> "return", value |-> value]
Raise(what) == [kind |-> "raise", error |-> what]

Skipped_Unchanged(reason) == [status |-> "skipped", reason |-> "unchanged"]
Skipped(reason) == [status |-> "skipped", reason |-> reason]
Indexed(n, p) == [status |-> "indexed", chunks |-> n, path |-> p]
NotInitialized == [status |-> "error", error |-> "not initialized"]

(***************************************************************************)
(* index_file, src/recall.py:56-106.  encodeFails: embedder.encode raises. *)
(* Gives the store after the call and the outcome.                         *)
(***************************************************************************)
\* line 74: if existing['ids'] and not force
CheckExisting(existing, force) == existing # {} /\ ~force

\* line 75: existing['metadatas'] and existing['metadatas'][0].get('hash') == current_hash
SameHash_Never(existing, current_hash) == FALSE
SameHash(existing, current_hash) == existing # {} /\ FirstOf(existing).hash = current_hash

index_file(store, file, force, encodeFails) ==
    IF ~IsFile(file)
    THEN [store |-> store, out |-> Return(Skipped("not a file"))]
    ELSE IF fs[file].kind = "binary"
    THEN [store |-> store, out |-> Return(Skipped("not text"))]
    ELSE
      LET text == TextOf(file)
          current_hash == HashOf[text]
          existing == Get(store, PathStr[file])
      IN  IF CheckExisting(existing, force) /\ SameHash(existing, current_hash)
          THEN [store |-> store, out |-> Return(Skipped("unchanged"))]
          ELSE
            LET store1 == IF CheckExisting(existing, force)
                          THEN Delete(store, Ids(existing))
                          ELSE store
                chunks == ChunksOf[text]
            IN  IF chunks = <<>>
                THEN [store |-> store1, out |-> Return(Skipped("empty"))]
                ELSE IF encodeFails
                THEN [store |-> store1, out |-> Raise("encode")]
                ELSE [store |-> Add(store1, NewRecords(file, chunks, current_hash)),
                      out |-> Return(Indexed(Len(chunks), PathStr[file]))]

(***************************************************************************)
(* index_directory, src/recall.py:108-131.                                 *)
(***************************************************************************)
\* line 111: the default extensions
DefaultExtensions == {".md", ".txt", ".py", ".go", ".js", ".ts", ".json", ".yaml", ".yml"}

\* an optional argument of a command: absent (cmd.get gives None or the default) or given
Absent == [given |-> FALSE, value |-> {}]
Given(v) == [given |-> TRUE, value |-> v]

\* the extensions arguments of the modelled commands
ExtensionArgs == {Absent, Given({".py", ".js"})}

\* lines 110-111: if extensions is None
Extensions(arg) == IF arg.given THEN arg.value ELSE DefaultExtensions

\* is `path` below `root` (rglob yields it)
Below(path, root) ==
    Len(path) > Len(root) /\ SubSeq(path, 1, Len(root)) = root

\* line 117: path.suffix.lower() in extensions
SuffixAllowed(path, extensions) == Str(Lower(Suffix(path))) \in extensions

\* lines 119-122: the ignore patterns, over every part of the path
Ignored(path) ==
    \/ \E i \in 1..Len(Parts(path)) : StartsWithDot(Parts(path)[i])
    \/ InParts("node_modules", path)
    \/ InParts("__pycache__", path)

\* lines 116-122 without is_file(): the paths below root the filters let through,
\* in rglob's order
Filtered(root, extensionsArg) ==
    SelectSeq(FileOrder,
              LAMBDA f : /\ Below(f, root)
                         /\ SuffixAllowed(f, Extensions(extensionsArg))
                         /\ ~Ignored(f))

\* Filtered for each modelled root and extensions argument, computed once
FilteredOf ==
    Tabulate([a \in Roots \X ExtensionArgs |-> Filtered(a[1], a[2])], Roots \X ExtensionArgs)

\* lines 116-122: the paths of rglob('*') that reach index_file, in rglob's order
Candidates(root, extensionsArg) == SelectSeq(FilteredOf[<<root, extensionsArg>>], IsFile)

RECURSIVE dir_loop(_, _, _, _, _)
\* lines 116-129 from candidate i on; acc is [store, indexed, skipped, files, visited]
dir_loop(cands, i, force, failAt, acc) ==
    IF i > Len(cands)
    THEN [store |-> acc.store, visited |-> acc.visited,
          out |-> Return([indexed |-> acc.indexed, skipped |-> acc.skipped,
                          files |-> acc.files])]
    ELSE
      LET r == index_file(acc.store, cands[i], force, failAt = i)
          seen == Append(acc.visited, PathStr[cands[i]])
      IN  IF r.out.kind = "raise"
          THEN [store |-> r.store, visited |-> seen, out |-> r.out]
          ELSE dir_loop(cands, i + 1, force, failAt,
                        [store |-> r.store,
                         indexed |-> acc.indexed
                                     + (IF r.out.value.status = "indexed" THEN 1 ELSE 0),
                         skipped |-> acc.skipped
                                     + (IF r.out.value.status = "indexed" THEN 0 ELSE 1),
                         files |-> Append(acc.files, r.out.value),
                         visited |-> seen])

index_directory(store, root, extensionsArg, force, failAt) ==
    dir_loop(Candidates(root, extensionsArg), 1, force, failAt,
             [store |-> store, indexed |-> 0, skipped |-> 0, files |-> <<>>,
              visited |-> <<>>])

(***************************************************************************)
(* search, src/recall.py:133-156.  The store's metric is modelled by the   *)
(* distance of two one-dimensional embeddings; records at the same         *)
(* distance come in any order.                                             *)
(***************************************************************************)
Distance_Zero(e1, e2) == 0
Distance(e1, e2) == IF e1 < e2 THEN e2 - e1 ELSE e1 - e2

RECURSIVE Nearest(_, _, _)
\* collection.query: every listing of the n records nearest to e, nearest first
Nearest(store, e, n) ==
    IF n = 0 \/ store = {} THEN {<<>>}
    ELSE LET closest == {r \in store : \A o \in store :
                            Distance(r.embedding, e) <= Distance(o.embedding, e)}
         IN  UNION {{<<r>> \o rest : rest \in Nearest(store \ {r}, e, n - 1)} : r \in closest}

\* lines 147-154: one formatted result
Formatted(r, e) ==
    [id |-> r.id,
     score |-> 1 - Distance(r.embedding, e),
     text |-> r.document,
     path |-> r.path,
     filename |-> r.filename,
     chunk_idx |-> r.chunk_idx]

\* every result list search may return
search(store, query, limit) ==
    {[i \in 1..Len(found) |-> Formatted(found[i], Embed(query))] :
        found \in Nearest(store, Embed(query), limit)}

\* the queries and limits of the modelled search commands
Queries == {TextShort, <<"a">>}
LimitArgs == {0, 1}
\* line 190: cmd.get('limit', 5); 0 stands for a command without 'limit'
Limit(arg) == IF arg = 0 THEN DefaultLimit ELSE arg

(***************************************************************************)
(* The state after construction: nothing loaded, the files on disk, and a  *)
(* store directory that is new or was filled by an earlier run.            *)
(***************************************************************************)
InitialFiles ==
    [f \in Files |->
        IF f = FileC THEN TextFile(TextOther) ELSE TextFile(TextShort)]

\* what an earlier run that indexed FileN left in a store
EarlierRun ==
    NewRecords(FileN, ChunksOf[TextShort], HashOf[TextShort])

\* an event: the command (its name, its path, db_path or query, its optional
\* extensions or limit, its force flag), the outcome of handle_command, and the
\* paths index_directory passed to index_file
Event(cmd, arg, opt, force, out, seen) ==
    [cmd |-> cmd, arg |-> arg, opt |-> opt, force |-> force, out |-> out, visited |-> seen]

\* an index_file command on path p that returned status 'indexed'
IndexedEvent(e, p) ==
    /\ e.cmd = "index_file"
    /\ e.arg = p
    /\ e.out.kind = "return"
    /\ e.out.value.status = "indexed"

\* what an edit of path p remembers of the event e it follows: whether e was an
\* index_file command on p that returned 'indexed', and its force flag
Summary(e, p) ==
    IF IndexedEvent(e, p)
    THEN [indexed |-> TRUE, force |-> e.force]
    ELSE [indexed |-> FALSE, force |-> FALSE]

\* no index_file call is running
NoCall == [file |-> <<>>, force |-> FALSE, text |-> "", had |-> 0]

\* a reader's observation: the store and the path it read, the number of records
\* it found, and whether an unforced index_file of that path on that store was
\* between its delete and its add
Observation(d, p, count, window) == [db |-> d, path |-> p, count |-> count, window |-> window]
NothingObserved == Observation("", "", 0, FALSE)

ChunkIdle ==
    /\ ctext = <<>>
    /\ csize = DefaultChunkSize
    /\ coverlap = DefaultOverlap
    /\ cstart = 0
    /\ cchunks = <<>>
    /\ cpc = "idle"

ServiceInit ==
    /\ fs = InitialFiles
    /\ dbs \in {[d \in DbPaths |-> {}],
                [d \in DbPaths |-> IF d = "/db1" THEN EarlierRun ELSE {}]}
    /\ collection = None
    /\ embedder = FALSE
    \* line 215: queue.put({"status": "ready"})
    /\ last = Event("start", "", Absent, FALSE, Return([status |-> "ready"]), <<>>)
    /\ ipc = "idle"
    /\ icall = NoCall
    /\ observed = NothingObserved
    /\ mpc = "loop"
    /\ mout = <<[status |-> "ready"]>>

Init == ChunkIdle /\ ServiceInit

(***************************************************************************)
(* main, src/recall.py:210-236.  A pass of the loop that receives a        *)
(* command is one step: queue.get, handle_command, queue.put.              *)
(***************************************************************************)
\* the outcome of a pass that handled nothing
NoOutcome == [kind |-> "none"]

\* line 236: {"status": "error", "error": str(e)}
ErrorOutcome_Nothing(out) == <<>>
ErrorOutcome(out) == <<[status |-> "error", error |-> out.error]>>

\* line 233: if cmd.get('cmd') == 'quit': break
Breaks_Never(action) == FALSE
Breaks(action) == action = "quit"

\* lines 230-236: what the try statement puts on the output queue and whether it
\* leaves the loop, given the outcome of handle_command
MainTry(out, action) ==
    IF out.kind = "raise"
    THEN [outputs |-> ErrorOutcome(out), break |-> FALSE]
    ELSE [outputs |-> <<out.value>>, break |-> Breaks(action)]

\* lines 230-236 for the command this step handles (its event is last')
Answer ==
    /\ mout' = MainTry(last'.out, last'.cmd).outputs
    /\ mpc' = IF MainTry(last'.out, last'.cmd).break THEN "done" ELSE "loop"

(***************************************************************************)
(* handle_command, src/recall.py:158-208: one action per command.          *)
(***************************************************************************)
\* lines 173, 178, 188, 194: if not _collection
Uninitialized_ChecksEmbedder == ~embedder
Uninitialized == collection = None

\* a method called on None raises
AttributeError == Raise("AttributeError")

\* the store the collection is bound to
Store == dbs[collection]

\* lines 24-37: get_collection opens db_path only when no collection is held
get_collection_Rebinds(db_path) == db_path
get_collection(db_path) == IF collection = None THEN db_path ELSE collection

\* lines 164-170.  failure: which collaborator fails to load, if any
CmdInit(db_path, failure) ==
    /\ mpc = "loop"
    /\ ipc = "idle"
    /\ \/ /\ failure = "none"
          /\ embedder' = TRUE
          /\ collection' = get_collection(db_path)
          /\ last' = Event("init", db_path, Absent, FALSE,
                           Return([status |-> "ok", db_path |-> db_path,
                                   count |-> Count(dbs[get_collection(db_path)])]),
                           <<>>)
       \/ /\ failure = "embedder"
          /\ ~embedder
          /\ UNCHANGED <<embedder, collection>>
          /\ last' = Event("init", db_path, Absent, FALSE, Raise("embedder"), <<>>)
       \/ /\ failure = "collection"
          /\ collection = None
          /\ embedder' = TRUE
          /\ UNCHANGED collection
          /\ last' = Event("init", db_path, Absent, FALSE, Raise("collection"), <<>>)
    /\ UNCHANGED <<fs, dbs>>
    /\ UNCHANGED <<cvars, wvars>>
    /\ Answer

\* the event of an index_file command; had: the number of records the path had in
\* the store when the command was handled (0 when no collection was held)
IndexFileEvent(file, force, out, had) ==
    Event("index_file", PathStr[file], Absent, force, out, <<>>) @@ [had |-> had]

\* lines 172-175
CmdIndexFile(file, force, encodeFails) ==
    /\ mpc = "loop"
    /\ ipc = "idle"
    /\ IF Uninitialized
       THEN /\ last' = IndexFileEvent(file, force, Return(NotInitialized), 0)
            /\ UNCHANGED dbs
       ELSE IF collection = None
       THEN /\ last' = IndexFileEvent(file, force, AttributeError, 0)
            /\ UNCHANGED dbs
       ELSE LET r == index_file(Store, file, force, encodeFails)
            IN  /\ dbs' = [dbs EXCEPT ![collection] = r.store]
                /\ last' = IndexFileEvent(file, force, r.out,
                                          Count(Get(Store, PathStr[file])))
    /\ UNCHANGED <<fs, collection, embedder>>
    /\ UNCHANGED <<cvars, wvars>>
    /\ Answer

\* lines 177-185.  failAt: the candidate whose embedding call fails, 0 for none
CmdIndexDir(root, extensionsArg, force, failAt) ==
    /\ mpc = "loop"
    /\ ipc = "idle"
    /\ failAt <= Len(Candidates(root, extensionsArg))
    /\ IF Uninitialized
       THEN /\ last' = Event("index_dir", PathStr[root], extensionsArg, force, Return(NotInitialized), <<>>)
            /\ UNCHANGED dbs
       ELSE IF collection = None
       THEN /\ last' = Event("index_dir", PathStr[root], extensionsArg, force,
                             AttributeError, <<>>)
            /\ UNCHANGED dbs
       ELSE LET r == index_directory(Store, root, extensionsArg, force, failAt)
            IN  /\ dbs' = [dbs EXCEPT ![collection] = r.store]
                /\ last' = Event("index_dir", PathStr[root], extensionsArg, force, r.out, r.visited)
    /\ UNCHANGED <<fs, collection, embedder>>
    /\ UNCHANGED <<cvars, wvars>>
    /\ Answer

\* lines 187-191
CmdSearch(query, limitArg) ==
    /\ mpc = "loop"
    /\ ipc = "idle"
    /\ IF Uninitialized
       THEN last' = Event("search", Str(query), limitArg, FALSE, Return(NotInitialized), <<>>)
       ELSE IF collection = None
       THEN last' = Event("search", Str(query), limitArg, FALSE, AttributeError, <<>>)
       ELSE \E results \in search(Store, query, Limit(limitArg)) :
               last' = Event("search", Str(query), limitArg, FALSE,
                             Return([status |-> "ok", results |-> results]), <<>>)
    /\ UNCHANGED <<fs, dbs, collection, embedder>>
    /\ UNCHANGED <<cvars, wvars>>
    /\ Answer

\* lines 193-196
CmdStats ==
    /\ mpc = "loop"
    /\ ipc = "idle"
    /\ IF Uninitialized
       THEN last' = Event("stats", "", Absent, FALSE, Return(NotInitialized), <<>>)
       ELSE IF collection = None
       THEN last' = Event("stats", "", Absent, FALSE, AttributeError, <<>>)
       ELSE last' = Event("stats", "", Absent, FALSE,
                          Return([status |-> "ok", count |-> Count(Store)]), <<>>)
    /\ UNCHANGED <<fs, dbs, collection, embedder>>
    /\ UNCHANGED <<cvars, wvars>>
    /\ Answer

\* lines 198-203
CmdClear ==
    /\ mpc = "loop"
    /\ ipc = "idle"
    /\ IF collection # None
       THEN dbs' = [dbs EXCEPT ![collection] = Delete(Store, Ids(Store))]
       ELSE UNCHANGED dbs
    /\ last' = Event("clear", "", Absent, FALSE, Return([status |-> "ok"]), <<>>)
    /\ UNCHANGED <<fs, collection, embedder>>
    /\ UNCHANGED <<cvars, wvars>>
    /\ Answer

\* lines 205-206
CmdQuit ==
    /\ mpc = "loop"
    /\ ipc = "idle"
    /\ last' = Event("quit", "", Absent, FALSE, Return([status |-> "bye"]), <<>>)
    /\ UNCHANGED <<fs, dbs, collection, embedder>>
    /\ UNCHANGED <<cvars, wvars>>
    /\ Answer

\* the actions of the modelled commands that handle_command does not know; "" is
\* the action of a dict without 'cmd' (line 162)
UnknownActions == {"", "reindex"}

\* line 208
CmdUnknown(action) ==
    /\ mpc = "loop"
    /\ ipc = "idle"
    /\ last' = Event("unknown", action, Absent, FALSE,
                     Return([status |-> "error", error |-> "unknown command: " \o action]),
                     <<>>)
    /\ UNCHANGED <<fs, dbs, collection, embedder>>
    /\ UNCHANGED <<cvars, wvars>>
    /\ Answer

\* line 162 for a received value that is no dict (a list, a string, a number):
\* cmd.get raises
CmdNotDict ==
    /\ mpc = "loop"
    /\ ipc = "idle"
    /\ last' = Event("not a dict", "", Absent, FALSE, AttributeError, <<>>)
    /\ UNCHANGED <<fs, dbs, collection, embedder>>
    /\ UNCHANGED <<cvars, wvars>>
    /\ Answer

\* the commands whose required field may be missing: cmd['path'], cmd['query']
FieldCommands == {"index_file", "index_dir", "search"}

\* lines 172-191 for a command without its 'path' or 'query'
CmdMissingField(action) ==
    /\ mpc = "loop"
    /\ ipc = "idle"
    /\ last' = Event("missing field", action, Absent, FALSE,
                     IF Uninitialized THEN Return(NotInitialized)
                     ELSE IF collection = None THEN AttributeError
                     ELSE Raise("KeyError"),
                     <<>>)
    /\ UNCHANGED <<fs, dbs, collection, embedder>>
    /\ UNCHANGED <<cvars, wvars>>
    /\ Answer

\* what queue.get gives besides a command: TimeoutError, another exception, None
Receipts == {"timeout", "receive error", "None"}

\* lines 219-221, 224-225, 227-228: continue
GetNothing(receipt) ==
    /\ mpc = "loop"
    /\ ipc = "idle"
    /\ last' = Event(receipt, "", Absent, FALSE, NoOutcome, <<>>)
    /\ mout' = <<>>
    /\ UNCHANGED mpc
    /\ UNCHANGED <<fs, dbs, collection, embedder>>
    /\ UNCHANGED <<cvars, wvars>>

\* lines 222-223: EOFError, break
GetEOF ==
    /\ mpc = "loop"
    /\ ipc = "idle"
    /\ last' = Event("EOF", "", Absent, FALSE, NoOutcome, <<>>)
    /\ mout' = <<>>
    /\ mpc' = "done"
    /\ UNCHANGED <<fs, dbs, collection, embedder>>
    /\ UNCHANGED <<cvars, wvars>>

\* the environment rewrites, removes or creates a file between two commands
Edit(file, state) ==
    /\ fs[file] # state
    /\ fs' = [fs EXCEPT ![file] = state]
    /\ last' = Event("edit", PathStr[file], Absent, FALSE,
                     Return([status |-> "edited", after |-> Summary(last, PathStr[file])]), <<>>)
    /\ UNCHANGED <<dbs, collection, embedder>>
    /\ UNCHANGED <<cvars, wvars, mvars>>

Next ==
    \/ \E d \in DbPaths, failure \in {"none", "embedder", "collection"} :
          CmdInit(d, failure)
    \/ \E f \in Targets, force \in BOOLEAN, encodeFails \in BOOLEAN :
          CmdIndexFile(f, force, encodeFails)
    \/ \E root \in Roots, ext \in ExtensionArgs, force \in BOOLEAN, failAt \in 0..MaxFailAt :
          CmdIndexDir(root, ext, force, failAt)
    \/ \E q \in Queries, limitArg \in LimitArgs : CmdSearch(q, limitArg)
    \/ CmdStats
    \/ CmdClear
    \/ CmdQuit
    \/ \E action \in UnknownActions : CmdUnknown(action)
    \/ CmdNotDict
    \/ \E action \in FieldCommands : CmdMissingField(action)
    \/ \E receipt \in Receipts : GetNothing(receipt)
    \/ GetEOF
    \/ \E f \in Mutable, state \in FileStates : Edit(f, state)

Spec == Init /\ [][Next]_vars

(***************************************************************************)
(* The chunker as a process: one step per loop iteration.                  *)
(***************************************************************************)
ChunkInit ==
    /\ ServiceInit
    /\ \E in \in ChunkInputs :
          /\ ctext = in[1]
          /\ csize = in[2]
          /\ coverlap = in[3]
    /\ cstart = 0
    /\ cchunks = <<>>
    /\ cpc = "while"

\* line 48: the loop test holds
ChunkTest ==
    /\ cpc = "while"
    /\ LoopTest(ctext, cstart)
    /\ cpc' = "body"
    /\ UNCHANGED <<ctext, csize, coverlap, cstart, cchunks>>
    /\ UNCHANGED svars

\* lines 49-53: the body runs once, back to the loop test
ChunkLoopBody ==
    /\ cpc = "body"
    /\ cchunks' = AppendChunk(cchunks, Window(ctext, cstart, csize))
    /\ cstart' = NextStart(WindowEnd(cstart, csize), coverlap)
    /\ cpc' = "while"
    /\ UNCHANGED <<ctext, csize, coverlap>>
    /\ UNCHANGED svars

\* lines 48, 54: the loop test fails, return chunks
ChunkReturn ==
    /\ cpc = "while"
    /\ ~LoopTest(ctext, cstart)
    /\ cpc' = "returned"
    /\ UNCHANGED <<ctext, csize, coverlap, cstart, cchunks>>
    /\ UNCHANGED svars

ChunkNext == ChunkTest \/ ChunkLoopBody \/ ChunkReturn

ChunkSpec == ChunkInit /\ [][ChunkNext]_vars

\* the interpreter keeps executing the loop while it can
ChunkFairSpec ==
    ChunkSpec /\ WF_vars(ChunkTest) /\ WF_vars(ChunkLoopBody) /\ WF_vars(ChunkReturn)

ChunkTypeOK ==
    /\ cpc \in {"idle", "while", "body", "returned"}
    /\ cstart \in 0..(Len(ctext) + csize)
    /\ Len(cchunks) <= Len(ctext)

(***************************************************************************)
(* Vocabulary of the properties.                                           *)
(***************************************************************************)
\* the file at the file system holds text that is not only whitespace
NonBlankText(f) == fs[f].kind = "text" /\ StripNonEmpty(TextOf(f))

\* the records index_file builds from the content the file has now
CurrentRecords(f) == NewRecords(f, ChunksOf[TextOf(f)], HashOf[TextOf(f)])

\* this step handles index_file(p, force) with the store initialized
IndexFileStep(p, force) ==
    /\ collection # None
    /\ last'.cmd = "index_file"
    /\ last'.arg = p
    /\ last'.force = force

\* the root an index_dir event names
RootOf(e) == CHOOSE r \in Roots : PathStr[r] = e.arg

\* the elements of a sequence
Range(seq) == {seq[i] : i \in 1..Len(seq)}

(***************************************************************************)
(* C1, idempotence of index_file.  An index_file(p, force=false) command   *)
(* on a non-blank text file with no records of p in the store that returns *)
(* returns 'indexed' and leaves records of p; and when the event before    *)
(* such a command is an index_file(p, force=false) that returned 'indexed' *)
(* (so the file was not edited in between), the command returns 'skipped'  *)
(* with reason 'unchanged' and every store is what it was.                 *)
(***************************************************************************)
C1_Idempotence ==
    [][\A f \in Targets :
         (IndexFileStep(PathStr[f], FALSE) /\ NonBlankText(f)) =>
            /\ (Get(Store, PathStr[f]) = {} /\ last'.out.kind = "return") =>
                  /\ last'.out.value.status = "indexed"
                  /\ Get(dbs'[collection], PathStr[f]) = CurrentRecords(f)
            /\ (IndexedEvent(last, PathStr[f]) /\ ~last.force) =>
                  /\ last'.out = Return(Skipped("unchanged"))
                  /\ dbs' = dbs]_vars

\* a second unforced index_file of an unchanged non-blank file was skipped
C1_Witness ==
    /\ collection # None
    /\ last.cmd = "index_file"
    /\ last.arg = PathStr[FileA]
    /\ ~last.force
    /\ last.out = Return(Skipped("unchanged"))
    /\ NonBlankText(FileA)
    /\ Get(Store, PathStr[FileA]) = CurrentRecords(FileA)

(***************************************************************************)
(* C2, replacement.  When a file was indexed (index_file returned          *)
(* 'indexed'), then edited to other non-blank content, and the next        *)
(* command is index_file(p, force=false) and returns, the records of p are *)
(* exactly the records of the chunks of the new content.                   *)
(***************************************************************************)
C2_Replacement ==
    [][\A f \in Targets :
         (/\ last.cmd = "edit"
          /\ last.arg = PathStr[f]
          /\ last.out.value.after.indexed
          /\ IndexFileStep(PathStr[f], FALSE)
          /\ NonBlankText(f)
          /\ last'.out.kind = "return")
         => Get(dbs'[collection], PathStr[f]) = CurrentRecords(f)]_vars

\* C2 with the first of the two calls unforced as well
C2_UnforcedFirst ==
    [][\A f \in Targets :
         (/\ last.cmd = "edit"
          /\ last.arg = PathStr[f]
          /\ last.out.value.after.indexed
          /\ ~last.out.value.after.force
          /\ IndexFileStep(PathStr[f], FALSE)
          /\ NonBlankText(f)
          /\ last'.out.kind = "return")
         => Get(dbs'[collection], PathStr[f]) = CurrentRecords(f)]_vars

(***************************************************************************)
(* C3, single-hash invariant.  In every store, two records with the same   *)
(* path metadata carry the same hash metadata.                             *)
(***************************************************************************)
C3_SingleHash ==
    \A d \in DbPaths : \A r1, r2 \in dbs[d] : r1.path = r2.path => r1.hash = r2.hash

(***************************************************************************)
(* C4, forced re-index is a full replace.  After index_file(p, force=true) *)
(* returns on a text file whose path had records, the records of p are     *)
(* exactly the records of the chunks of the current content, none when the *)
(* content is blank.                                                       *)
(***************************************************************************)
C4_ForcedReplace ==
    [][\A f \in Targets :
         (/\ IndexFileStep(PathStr[f], TRUE)
          /\ Get(Store, PathStr[f]) # {}
          /\ fs[f].kind = "text"
          /\ last'.out.kind = "return")
         => Get(dbs'[collection], PathStr[f])
              = (IF NonBlankText(f) THEN CurrentRecords(f) ELSE {})]_vars

(***************************************************************************)
(* C5, chunker infinite-loop guard.  chunk_text on a non-empty text with   *)
(* overlap >= chunk_size ends by raising; with overlap < chunk_size it     *)
(* ends by returning.                                                      *)
(***************************************************************************)
C5_FailFast ==
    /\ (cpc = "while" /\ coverlap >= csize /\ Len(ctext) > 0) ~> (cpc = "raised")
    /\ (cpc = "while" /\ coverlap < csize) ~> (cpc = "returned")

(***************************************************************************)
(* C6, chunk boundaries.  With 0 <= overlap < chunk_size, chunk_text       *)
(* returns, in order, the windows text[s : s + chunk_size] for s = 0,      *)
(* step, 2*step, ... below len(text), step = chunk_size - overlap, without *)
(* the windows that are only whitespace; 1000 non-blank characters with    *)
(* 500/50 give the three windows that start at 0, 450 and 900.             *)
(***************************************************************************)
\* the number of multiples of step below len
WindowCount(len, step) == (len + step - 1) \div step

ExpectedChunks(text, chunk_size, overlap) ==
    LET step == chunk_size - overlap
        windows == [k \in 1..WindowCount(Len(text), step) |->
                      SubSeq(text, (k - 1) * step + 1,
                             Min((k - 1) * step + chunk_size, Len(text)))]
    IN  SelectSeq(windows, LAMBDA w : \E i \in 1..Len(w) : w[i] \notin Whitespace)

C6_Boundaries ==
    (cpc = "returned" /\ 0 <= coverlap /\ coverlap < csize) =>
        /\ cchunks = ExpectedChunks(ctext, csize, coverlap)
        /\ (Len(ctext) = 1000 /\ csize = 500 /\ coverlap = 50) =>
              cchunks = <<SubSeq(ctext, 1, 500), SubSeq(ctext, 451, 950),
                          SubSeq(ctext, 901, 1000)>>

\* the 1000-character text was chunked
C6_Witness ==
    /\ cpc = "returned"
    /\ Len(ctext) = 1000
    /\ csize = 500
    /\ coverlap = 50
    /\ Len(cchunks) = 3

(***************************************************************************)
(* C7, short text.  As claimed: for a non-blank text shorter than          *)
(* chunk_size (0 <= overlap < chunk_size) chunk_text returns exactly one   *)
(* chunk, the whole text.                                                  *)
(***************************************************************************)
ShortNonBlank ==
    /\ cpc = "returned"
    /\ 0 <= coverlap
    /\ coverlap < csize
    /\ Len(ctext) < csize
    /\ StripNonEmpty(ctext)

C7_OneChunk == ShortNonBlank => cchunks = <<ctext>>

(***************************************************************************)
(* C7 as amended: for such a text the first chunk is the whole text, and   *)
(* it is the only chunk exactly when the text from position chunk_size -   *)
(* overlap on is empty or only whitespace (so always when the length is at *)
(* most chunk_size - overlap).                                             *)
(***************************************************************************)
C7_FirstChunkWhole ==
    ShortNonBlank =>
        /\ Len(cchunks) >= 1
        /\ cchunks[1] = ctext
        /\ (Len(cchunks) = 1
              <=> ~StripNonEmpty(SubSeq(ctext, csize - coverlap + 1, Len(ctext))))
        /\ (Len(ctext) <= csize - coverlap => cchunks = <<ctext>>)

\* a short non-blank text no longer than the step gave one chunk
C7_Witness ==
    /\ ShortNonBlank
    /\ Len(ctext) = csize - coverlap
    /\ coverlap > 0
    /\ cchunks = <<ctext>>

(***************************************************************************)
(* C8, a directory scan survives a per-file error.  An index_dir command   *)
(* on an initialized store returns its aggregate result, and every         *)
(* candidate file was passed to index_file.                                *)
(***************************************************************************)
C8_ScanContinues ==
    (last.cmd = "index_dir" /\ collection # None) =>
        /\ last.out.kind = "return"
        /\ LET cands == Candidates(RootOf(last), last.opt)
           IN  last.visited = [i \in 1..Len(cands) |-> PathStr[cands[i]]]

(***************************************************************************)
(* C9, traversal filtering.  The files an index_dir command that returns   *)
(* passes to index_file are exactly the files below the root whose         *)
(* extension, lower-cased, is allowed and none of whose segments below the *)
(* root starts with '.' or is node_modules or __pycache__.                 *)
(***************************************************************************)
SegmentsBelow(f, root) == SubSeq(f, Len(root) + 1, Len(f))

ExpectedFiles(root, extensions) ==
    {f \in Files :
        /\ Below(f, root)
        /\ IsFile(f)
        /\ Str(Lower(Suffix(f))) \in extensions
        /\ \A seg \in Range(SegmentsBelow(f, root)) :
              /\ seg[1] # "."
              /\ Str(seg) \notin {"node_modules", "__pycache__"}}

ScanReturned ==
    /\ last.cmd = "index_dir"
    /\ collection # None
    /\ last.out.kind = "return"

C9_Filter ==
    ScanReturned =>
        Range(last.visited) = {PathStr[f] : f \in ExpectedFiles(RootOf(last), Extensions(last.opt))}

\* C9 for the roots none of whose own segments is hidden or a cache directory
C9_PlainRoot ==
    (ScanReturned /\ ~Ignored(RootOf(last))) =>
        Range(last.visited) = {PathStr[f] : f \in ExpectedFiles(RootOf(last), Extensions(last.opt))}

(***************************************************************************)
(* C10, uninitialized-store guard.  While no collection is held (no init   *)
(* has completed), an index_file, index_dir, search or stats command       *)
(* returns {status: 'error', error: 'not initialized'}, and the stores,    *)
(* the embedder and the collection are what they were.                     *)
(***************************************************************************)
C10_Guard ==
    [][(collection = None /\ last'.cmd \in {"index_file", "index_dir", "search", "stats"}) =>
          /\ last'.out = Return(NotInitialized)
          /\ UNCHANGED <<dbs, embedder, collection, fs>>]_vars

\* a search was refused although the embedder is loaded and a store has records
C10_Witness ==
    /\ collection = None
    /\ embedder
    /\ last.cmd = "search"
    /\ last.out = Return(NotInitialized)
    /\ dbs["/db1"] # {}

(***************************************************************************)
(* C11, clear empties the store.  When a clear command has returned        *)
(* status 'ok' and the next command is a stats or an init that reports a   *)
(* count, that count is 0.                                                 *)
(***************************************************************************)
\* this step reports a count: a stats or an init that returns status 'ok'
ReportsCount ==
    /\ last'.cmd \in {"stats", "init"}
    /\ last'.out.kind = "return"
    /\ last'.out.value.status = "ok"

ClearReturned == last.cmd = "clear" /\ last.out = Return([status |-> "ok"])

C11_ClearEmpties ==
    [][(ClearReturned /\ ReportsCount) => last'.out.value.count = 0]_vars

\* C11 for a clear handled while a collection is held
C11_ClearWhenBound ==
    [][(ClearReturned /\ collection # None /\ ReportsCount)
          => last'.out.value.count = 0]_vars

(***************************************************************************)
(* C13, ranking order.  As claimed: after a search that returned, every    *)
(* stored chunk whose text is identical to the query is the first result.  *)
(***************************************************************************)
SearchReturned ==
    /\ last.cmd = "search"
    /\ last.out.kind = "return"
    /\ last.out.value.status = "ok"

\* the records of the searched store whose text is the query
SameText == {r \in Store : r.document = last.arg}

C14_IdShape ==
    \A d \in DbPaths :
        /\ \A r1, r2 \in dbs[d] : r1.id = r2.id => r1 = r2
        /\ \A r \in dbs[d] : r.id = r.path \o "::" \o ToString(r.chunk_idx)
        /\ \A r \in dbs[d] :
              {s.chunk_idx : s \in Get(dbs[d], r.path)}
                 = 0..(Cardinality(Get(dbs[d], r.path)) - 1)

\* a store that holds two chunks of one file and a chunk of another file
C14_Witness ==
    /\ collection # None
    /\ Cardinality(Get(Store, PathStr[FileA])) = 2
    /\ Get(Store, PathStr[FileN]) # {}
    /\ last.cmd = "index_file"

(***************************************************************************)
(* C16, skips that leave the store untouched.  When an index_file command  *)
(* returns 'skipped' with reason 'not a file', 'not text' or 'unchanged',  *)
(* every store is what it was before the call.                             *)
(***************************************************************************)
FrameSkips == {Return(Skipped(reason)) : reason \in {"not a file", "not text", "unchanged"}}

C16_SkipsKeepStore ==
    [][(collection # None /\ last'.cmd = "index_file" /\ last'.out \in FrameSkips)
          => dbs' = dbs]_vars

\* index_file on a path whose file was removed was skipped, and the records of the
\* path are still stored
C16_WitnessRemoved ==
    /\ collection # None
    /\ last.cmd = "index_file"
    /\ last.arg = PathStr[FileA]
    /\ last.out = Return(Skipped("not a file"))
    /\ fs[FileA] = NoFile
    /\ Get(Store, PathStr[FileA]) # {}

(***************************************************************************)
(* C17, changed-to-blank file.  An index_file(p, force=false) command on a *)
(* text file whose content is empty or only whitespace and whose path has  *)
(* records returns 'skipped' with reason 'empty' and leaves no record of p *)
(* in the store.                                                           *)
(***************************************************************************)
BlankText(f) == fs[f].kind = "text" /\ ~StripNonEmpty(TextOf(f))

C17_BlankEmptiesPath ==
    [][\A f \in Targets :
         (/\ IndexFileStep(PathStr[f], FALSE)
          /\ BlankText(f)
          /\ Get(Store, PathStr[f]) # {})
         => /\ last'.out = Return(Skipped("empty"))
            /\ Get(dbs'[collection], PathStr[f]) = {}
            /\ dbs' # dbs]_vars

\* an unforced index_file of a file emptied after it was indexed was skipped as
\* 'empty' and removed the records the path had
C17_Witness ==
    /\ collection # None
    /\ last.cmd = "index_file"
    /\ last.arg = PathStr[FileA]
    /\ ~last.force
    /\ last.had > 0
    /\ fs[FileA] = TextFile(TextEmpty)
    /\ last.out = Return(Skipped("empty"))
    /\ Get(Store, PathStr[FileA]) = {}

\* the same for a file rewritten to whitespace
C17_WitnessWhitespace ==
    /\ collection # None
    /\ last.cmd = "index_file"
    /\ last.arg = PathStr[FileA]
    /\ ~last.force
    /\ last.had > 0
    /\ fs[FileA] = TextFile(TextBlank)
    /\ last.out = Return(Skipped("empty"))
    /\ Get(Store, PathStr[FileA]) = {}

(***************************************************************************)
(* C18, store singleton binding.  Once a collection is held, every command *)
(* leaves it bound to the store of the first init and changes no other     *)
(* store; a later init returns the count of that store and echoes the      *)
(* db_path it was given.                                                   *)
(***************************************************************************)
C18_SingletonBinding ==
    [][collection # None =>
          /\ collection' = collection
          /\ \A d \in DbPaths \ {collection} : dbs'[d] = dbs[d]
          /\ (last'.cmd = "init" /\ last'.out.kind = "return") =>
                /\ last'.out.value.count = Count(dbs[collection])
                /\ last'.out.value.db_path = last'.arg]_vars

\* a second init that named another db_path returned the count of the first store
C18_Witness ==
    /\ collection = "/db1"
    /\ last.cmd = "init"
    /\ last.arg = "/db2"
    /\ last.out = Return([status |-> "ok", db_path |-> "/db2", count |-> Count(dbs["/db1"])])
    /\ Count(dbs["/db1"]) # Count(dbs["/db2"])

(***************************************************************************)
(* index_file followed call by call: the part up to the delete of line 78, *)
(* then the part from the chunking of line 81 on.  Between the two another *)
(* process may read the persistent store, and the file may be rewritten.   *)
(***************************************************************************)
\* the characters of the text the running call read
CallText == CHOOSE t \in Texts : StrOf[t] = icall.text

\* lines 172-175, then 58-78 of index_file
IndexFileBegin(file, force) ==
    /\ mpc = "loop"
    /\ ipc = "idle"
    /\ LET had == IF collection = None THEN 0 ELSE Count(Get(Store, PathStr[file]))
           Returns(out) ==
               /\ last' = IndexFileEvent(file, force, out, had)
               /\ UNCHANGED <<dbs, ipc, icall>>
               /\ Answer
       IN  IF Uninitialized
           THEN Returns(Return(NotInitialized))
           ELSE IF collection = None
           THEN Returns(AttributeError)
           ELSE IF ~IsFile(file)
           THEN Returns(Return(Skipped("not a file")))
           ELSE IF fs[file].kind = "binary"
           THEN Returns(Return(Skipped("not text")))
           ELSE
             LET existing == Get(Store, PathStr[file])
                 current_hash == HashOf[TextOf(file)]
             IN  IF CheckExisting(existing, force) /\ SameHash(existing, current_hash)
                 THEN Returns(Return(Skipped("unchanged")))
                 ELSE /\ dbs' = [dbs EXCEPT ![collection] =
                                    IF CheckExisting(existing, force)
                                    THEN Delete(Store, Ids(existing))
                                    ELSE Store]
                      /\ ipc' = "embed"
                      /\ icall' = [file |-> file, force |-> force,
                                   text |-> fs[file].text, had |-> had]
                      /\ UNCHANGED <<last, mvars>>
    /\ UNCHANGED <<fs, collection, embedder, observed>>
    /\ UNCHANGED cvars

\* lines 81-106 of index_file
IndexFileFinish(encodeFails) ==
    /\ ipc = "embed"
    /\ LET chunks == ChunksOf[CallText]
           Returns(out) == last' = IndexFileEvent(icall.file, icall.force, out, icall.had)
       IN  IF chunks = <<>>
           THEN Returns(Return(Skipped("empty"))) /\ UNCHANGED dbs
           ELSE IF encodeFails
           THEN Returns(Raise("encode")) /\ UNCHANGED dbs
           ELSE /\ dbs' = [dbs EXCEPT ![collection] =
                              Add(Store, NewRecords(icall.file, chunks, HashOf[CallText]))]
                /\ Returns(Return(Indexed(Len(chunks), PathStr[icall.file])))
    /\ ipc' = "idle"
    /\ icall' = NoCall
    /\ Answer
    /\ UNCHANGED <<fs, collection, embedder, observed>>
    /\ UNCHANGED cvars

\* is an unforced index_file of path p on store d between its delete and its add
InWindow(d, p) ==
    /\ ipc = "embed"
    /\ collection = d
    /\ PathStr[icall.file] = p
    /\ ~icall.force
    /\ icall.had > 0

\* another process reads the records of path p in the persistent store d
Read(d, p) ==
    /\ observed' = Observation(d, p, Count(Get(dbs[d], p)), InWindow(d, p))
    /\ UNCHANGED <<fs, dbs, collection, embedder, last, ipc, icall, mvars>>
    /\ UNCHANGED cvars

WindowNext ==
    \/ \E d \in DbPaths, failure \in {"none", "embedder", "collection"} :
          CmdInit(d, failure)
    \/ \E f \in Targets, force \in BOOLEAN : IndexFileBegin(f, force)
    \/ \E encodeFails \in BOOLEAN : IndexFileFinish(encodeFails)
    \/ \E d \in DbPaths, f \in Mutable : Read(d, PathStr[f])
    \/ \E f \in Mutable, state \in FileStates : Edit(f, state)

WindowSpec == Init /\ [][WindowNext]_vars

(***************************************************************************)
(* C15, non-transactional replace window.  While an unforced index_file of *)
(* a path that had records is between its delete and its add, the store    *)
(* has no record of the path, and a reader in that window finds none; when *)
(* the embedding call fails in the window the path is left without         *)
(* records; and when the next index_file(p, force=false) on the file,      *)
(* still a non-blank text, returns, it returns 'indexed' and the records   *)
(* of p are the records of the chunks of the file.                         *)
(***************************************************************************)
\* the last event: an unforced index_file of f that found records and whose
\* embedding call failed
FailedInWindow(f) ==
    /\ last.cmd = "index_file"
    /\ last.arg = PathStr[f]
    /\ last.out = Raise("encode")
    /\ ~last.force
    /\ last.had > 0

C15_ReplaceWindow ==
    /\ [](\A d \in DbPaths, f \in Targets :
             InWindow(d, PathStr[f]) => Get(dbs[d], PathStr[f]) = {})
    /\ [](observed.window => observed.count = 0)
    /\ [](\A f \in Targets :
             (FailedInWindow(f) /\ ipc = "idle") => Get(Store, PathStr[f]) = {})
    /\ [][\A f \in Targets :
            (/\ FailedInWindow(f)
             /\ ipc = "embed"
             /\ icall.file = f
             /\ ~icall.force
             /\ NonBlankText(f)
             /\ ipc' = "idle"
             /\ last'.out.kind = "return")
            => /\ last'.out.value.status = "indexed"
               /\ Get(dbs'[collection], PathStr[f]) = CurrentRecords(f)]_vars

\* a reader found no record of a path in the window of a replace, and then the
\* embedding call of that replace failed and left the path without records
C15_Witness ==
    /\ observed.window
    /\ observed.count = 0
    /\ FailedInWindow(FileA)
    /\ observed.path = PathStr[FileA]
    /\ observed.db = collection
    /\ ipc = "idle"
    /\ Get(Store, PathStr[FileA]) = {}
    /\ NonBlankText(FileA)

\* the next unforced index_file after such a failure is running
C15_RetryRunning ==
    /\ FailedInWindow(FileA)
    /\ ipc = "embed"
    /\ icall.file = FileA
    /\ ~icall.force
    /\ NonBlankText(FileA)

(***************************************************************************)
(* C12, command loop robustness.  Every pass of the main loop that         *)
(* receives a command (a known command, an unknown action, a command with  *)
(* a missing field, a value that is no dict) puts exactly one outcome on   *)
(* the output queue: what handle_command returned, or {status: 'error',    *)
(* error: ...} when it raised; and after a command whose handling raised   *)
(* the loop is still running.                                              *)
(***************************************************************************)
CommandKinds ==
    {"init", "index_file", "index_dir", "search", "stats", "clear", "quit",
     "unknown", "not a dict", "missing field"}

C12_OneOutcome ==
    [][(mpc = "loop" /\ last'.cmd \in CommandKinds) =>
          /\ Len(mout') = 1
          /\ last'.out.kind = "return" => mout'[1] = last'.out.value
          /\ last'.out.kind = "raise" =>
                /\ mout'[1] = [status |-> "error", error |-> last'.out.error]
                /\ mpc' = "loop"]_vars

\* an index_file whose embedding call raised was answered with an error outcome and
\* the loop goes on
C12_Witness ==
    /\ last.cmd = "index_file"
    /\ last.out = Raise("encode")
    /\ mout = <<[status |-> "error", error |-> "encode"]>>
    /\ mpc = "loop"
    /\ collection # None

(***************************************************************************)
(* C19, loop termination.  The main loop ends only in a pass that answered *)
(* a quit command with {status: 'bye'} or in which queue.get reported the  *)
(* end of input; a quit command is answered with {status: 'bye'} and ends  *)
(* the loop; after the loop has ended nothing is put on the output queue   *)
(* and no command is handled; a receive timeout, a None value or another   *)
(* receive error puts nothing and leaves the loop running.                 *)
(***************************************************************************)
Bye == <<[status |-> "bye"]>>

C19_Termination ==
    [][/\ (mpc = "loop" /\ mpc' = "done") =>
             \/ last'.cmd = "quit" /\ mout' = Bye
             \/ last'.cmd = "EOF" /\ mout' = <<>>
       /\ (mpc = "loop" /\ last'.cmd = "quit") => (mpc' = "done" /\ mout' = Bye)
       /\ mpc = "done" =>
             /\ mpc' = "done"
             /\ mout' = mout
             /\ UNCHANGED <<dbs, collection, embedder>>
       /\ (mpc = "loop" /\ last'.cmd \in Receipts) =>
             /\ mpc' = "loop"
             /\ mout' = <<>>
             /\ UNCHANGED <<fs, dbs, collection, embedder>>]_vars

\* the loop has ended on a quit command received after an init
C19_Witness ==
    /\ mpc = "done"
    /\ last.cmd = "quit"
    /\ mout = Bye
    /\ collection # None

\* the loop goes on after a receive timeout
C19_TimeoutPassed ==
    /\ mpc = "loop"
    /\ last.cmd = "timeout"
    /\ mout = <<>>
    /\ collection # None

=============================================================================
